---- MODULE Spec2Model ----
(***************************************************************************)
(* Model of the acquisition pipeline of Market Insights Pro:               *)
(*   main.py            create_report (the /report handler), scraping_lock *)
(*   core/scraper.py    AmazonScraper (search, detail, save_to_database)   *)
(*   core/models.py     Product, ScrapingSession, DatabaseManager          *)
(* Several /report requests run as coroutines on one event loop.  A step   *)
(* of the model is the code between two suspension points (await) of one   *)
(* coroutine; save_to_database is synchronous and therefore one step.      *)
(*                                                                         *)
(* main.py declares create_report with "def" although its body awaits; the *)
(* body is modelled as the coroutine it is written to be.                  *)
(***************************************************************************)
EXTENDS Integers, Sequences, FiniteSets, TLC

(***************************************************************************)
(* Bounds of the model                                                     *)
(***************************************************************************)
\* largest number of item elements on a results page
MaxItems == 6
\* largest number of failing detail visits in one run
MaxDetailFailures == 1
\* largest number of store faults the environment injects in one behaviour
MaxDbFaults == 1
\* largest number of browsers that are closed under their run at a time
MaxSessionCloses == 1
\* largest number of start_browser calls on one AmazonScraper object
MaxStarts == 4
\* the clock of the pacing sleeps ticks this many times a second
Ticks == 2
\* largest number of items in a batch passed to save_to_database directly
MaxBatch == 2
\* largest number of direct save_to_database calls
MaxSaves == 2
\* the last second of the clock in the behaviours of direct calls
MaxTime == 1

\* the concurrent /report requests
Reqs == {1, 2}
Keywords == {"wireless mouse", "usb hub"}

(***************************************************************************)
(* Program constants                                                       *)
(***************************************************************************)
\* scraper.py:198   max_retries = 3
max_retries == 3
\* scraper.py:852   products_basic[:5]
DetailCap == 5
\* main.py:144      max_products=100
max_products == 100

(***************************************************************************)
(* Text.  A text is a sequence of one-character strings, so that           *)
(* str.lower() and the substring test "a in b" are computed, not assumed.  *)
(***************************************************************************)
UpperLetters == <<"A", "B", "C", "D", "E", "F", "G", "H", "I", "J", "K", "L", "M", "N", "O", "P", "Q", "R", "S", "T", "U", "V", "W", "X", "Y", "Z">>
LowerLetters == <<"a", "b", "c", "d", "e", "f", "g", "h", "i", "j", "k", "l", "m", "n", "o", "p", "q", "r", "s", "t", "u", "v", "w", "x", "y", "z">>

LowerChar(c) ==
    IF \E i \in DOMAIN UpperLetters : UpperLetters[i] = c
    THEN LowerLetters[CHOOSE i \in DOMAIN UpperLetters : UpperLetters[i] = c]
    ELSE c

\* str.lower()
lower(s) == [i \in 1..Len(s) |-> LowerChar(s[i])]

\* the Python test "sub in s" on strings
Contains(sub, s) ==
    \E i \in 0..(Len(s) - Len(sub)) : SubSeq(s, i + 1, i + Len(sub)) = sub

\* scraper.py:263-269
error_indicators == <<
    <<"S", "o", "r", "r", "y", "!", " ", "S", "o", "m", "e", "t", "h", "i", "n", "g", " ", "w", "e", "n", "t", " ", "w", "r", "o", "n", "g", "!">>,
    <<"5", "0", "3", " ", "S", "e", "r", "v", "i", "c", "e", " ", "U", "n", "a", "v", "a", "i", "l", "a", "b", "l", "e">>,
    <<"5", "0", "0", " ", "I", "n", "t", "e", "r", "n", "a", "l", " ", "S", "e", "r", "v", "e", "r", " ", "E", "r", "r", "o", "r">>,
    <<"R", "o", "b", "o", "t", " ", "C", "h", "e", "c", "k">>,
    <<"c", "a", "p", "t", "c", "h", "a">> >>

(***************************************************************************)
(* The pages the marketplace may serve (the environment's inputs).         *)
(***************************************************************************)
TitleOK == <<"A", "m", "a", "z", "o", "n", ".", "c", "o", "m", " ", ":", " ", "m", "o", "u", "s", "e">>
TitleRobot == <<"R", "o", "b", "o", "t", " ", "C", "h", "e", "c", "k">>
ContentOK == <<"<", "d", "i", "v", ">", "m", "o", "u", "s", "e", "<", "/", "d", "i", "v", ">">>
ContentCaptcha == <<"<", "f", "o", "r", "m", " ", "a", "c", "t", "i", "o", "n", "=", "v", "a", "l", "i", "d", "a", "t", "e", "C", "a", "p", "t", "c", "h", "a", ">">>

AmazonHost == "https://www.amazon.com"
Paths == <<"/dp/B001", "/dp/B002", "/dp/B003", "/dp/B004", "/dp/B005", "/dp/B006", "/dp/B007", "/dp/B008", "/dp/B009", "/dp/B010", "/dp/B011", "/dp/B012">>
Names == <<"Logitech M185 Wireless Mouse", "Anker 4-Port USB 3.0 Hub", "Razer Basilisk Gaming Mouse", "Microsoft Bluetooth Mouse", "Sabrent 7-Port USB Hub", "Apple Magic Mouse White", "TeckNet Ergonomic Mouse", "Amazon Basics USB Hub", "Kensington Trackball Mouse", "HP X3000 Wireless Mouse", "Dell MS116 Optical Mouse", "Corsair Harpoon RGB Mouse">>

\* a URL: host and path; href="/dp/.." has an empty host
RelHref(i) == [host |-> "", path |-> Paths[i]]
AbsHref(i) == [host |-> AmazonHost, path |-> Paths[i]]
NoUrl == [host |-> "", path |-> ""]

\* an item element of the results page, seen through what the field
\* chains of scraper.py:388-451 resolve on it: href of the first <a href>,
\* the accepted title candidate ("N/A" when none), the parsed price (0 when none)
Elem(href, name, price) == [href |-> href, name |-> name, price |-> price]
GoodElem(i) == Elem(RelHref(i), Names[i], 10 + i)

RECURSIVE GoodElems(_, _)
GoodElems(a, b) == IF a > b THEN <<>> ELSE <<GoodElem(a)>> \o GoodElems(a + 1, b)

\* a results page: title, markup, the container selectors (indices into
\* selectors_to_try) and item selectors (indices into product_selectors)
\* that match on it, and the item elements the item selectors yield
Page(t, c, cs, is, es) ==
    [title |-> t, content |-> c, containers |-> cs, itemsels |-> is, elements |-> es]

Pages == <<
    Page(TitleOK, ContentOK, {2}, {1}, GoodElems(1, MaxItems)),
    Page(TitleOK, ContentOK, {3, 5}, {2, 3},
         <<GoodElem(2), Elem(AbsHref(2), Names[2], 12), GoodElem(7)>>),
    Page(TitleOK, ContentOK, {2}, {1},
         <<Elem(NoUrl, Names[8], 18), GoodElem(3), Elem(RelHref(9), "N/A", 19),
           Elem(RelHref(10), Names[10], 0), GoodElem(8)>>),
    Page(TitleOK, ContentOK, {2}, {1},
         <<Elem(NoUrl, Names[8], 18), Elem(RelHref(9), "N/A", 19)>>),
    Page(TitleOK, ContentOK, {5}, {}, <<>>),
    Page(TitleOK, ContentOK, {}, {}, <<>>),
    Page(TitleRobot, ContentOK, {}, {}, <<>>),
    Page(TitleOK, ContentCaptcha, {2}, {1}, GoodElems(1, 2)) >>

PageIds == DOMAIN Pages
NoPage == 0


(***************************************************************************)
(* Python helpers                                                          *)
(***************************************************************************)
\* dict.get(k, default)
Get(d, k, default) == IF k \in DOMAIN d THEN d[k] ELSE default

\* {**a, **b}: the keys of both, b's value where both have the key
Merge(a, b) ==
    [k \in (DOMAIN a) \cup (DOMAIN b) |-> IF k \in DOMAIN b THEN b[k] ELSE a[k]]

\* s[:n]
Take(s, n) == SubSeq(s, 1, IF n < Len(s) THEN n ELSE Len(s))

Max(a, b) == IF a >= b THEN a ELSE b

\* Python's None where a string is expected
None == "<None>"

\* a message built by an f-string: its fixed text, the error indicator
\* interpolated into it (index into error_indicators, 0: none) and the
\* exception text interpolated into it ("": none)
Msg(text, indicator, exc) == [text |-> text, indicator |-> indicator, exc |-> exc]

(***************************************************************************)
(* scrape_search_page after the page was reached (scraper.py:257-466)      *)
(***************************************************************************)
\* mutant: the test without .lower()
IndicatorMatches_mutCaseSensitive(indicator, pg) ==
    \/ Contains(indicator, pg.title)
    \/ Contains(indicator, pg.content)

\* scraper.py:273  the test of one indicator against title and markup
IndicatorMatches(indicator, pg) ==
    \/ Contains(lower(indicator), lower(pg.title))
    \/ Contains(lower(indicator), lower(pg.content))

\* scraper.py:272-275  index of the first indicator (list order) that
\* matches, 0 when none does
FirstIndicator(pg) ==
    IF \E i \in DOMAIN error_indicators : IndicatorMatches(error_indicators[i], pg)
    THEN CHOOSE i \in DOMAIN error_indicators :
            /\ IndicatorMatches(error_indicators[i], pg)
            /\ \A j \in 1..(i - 1) : ~IndicatorMatches(error_indicators[j], pg)
    ELSE 0

\* scraper.py:329-345  product_list_container: the first selector of
\* selectors_to_try that matches (0: None)
product_list_container(pg) ==
    IF pg.containers = {} THEN 0
    ELSE CHOOSE c \in pg.containers : \A d \in pg.containers : c <= d

\* scraper.py:372-376  the elements of the first item selector that matches
products_of(pg) == IF pg.itemsels = {} THEN <<>> ELSE pg.elements

\* scraper.py:392-395  product_url of an element
product_url_of(e) ==
    IF e.href.path = "" THEN NoUrl
    ELSE IF e.href.host = "" THEN [host |-> AmazonHost, path |-> e.href.path]
    ELSE e.href

\* scraper.py:454  the validity filter
ValidElem(e) == e.name \notin {"N/A", ""} /\ e.price > 0 /\ product_url_of(e) # NoUrl

\* scraper.py:388-455  scraped_data, in the order of the elements
RECURSIVE scraped_data(_)
scraped_data(es) ==
    IF es = <<>> THEN <<>>
    ELSE (IF ValidElem(Head(es))
          THEN <<[name |-> Head(es).name, price |-> Head(es).price,
                  url |-> product_url_of(Head(es))]>>
          ELSE <<>>) \o scraped_data(Tail(es))

\* scraper.py:347-351 and 378-381  the file scrape_search_page writes on a
\* page ("": none): the whole markup when no container was found, the
\* head of the container's markup when it holds no item element
FileWritten(pg) ==
    IF product_list_container(pg) = 0 THEN "error_page.html"
    ELSE IF products_of(pg) = <<>> THEN "debug_container.html"
    ELSE ""

\* the same, tabulated over the pages of the model
RECURSIVE FilesUpTo(_)
FilesUpTo(n) == IF n = 0 THEN <<>> ELSE Append(FilesUpTo(n - 1), FileWritten(Pages[n]))

FileWrittenOn == FilesUpTo(Len(Pages))

\* scraper.py:329-466  container, item elements and records of a page
ExtractionResult(pg) ==
    IF product_list_container(pg) = 0
    THEN [status |-> "error", reason |-> Msg("container not found (error_page.html saved)", 0, "")]
    ELSE IF products_of(pg) = <<>>
    THEN [status |-> "error", reason |-> Msg("container found, no item elements (debug_container.html saved)", 0, "")]
    ELSE IF scraped_data(products_of(pg)) = <<>>
    THEN [status |-> "error", reason |-> Msg("no valid name and price in {len(products)} elements", 0, "")]
    ELSE [status |-> "success", data |-> scraped_data(products_of(pg))]

\* mutant: the error-page check of scraper.py:272 is missing
PageResult_mutNoBlockCheck(pg) == ExtractionResult(pg)

\* scraper.py:257-466  the result of scrape_search_page on a reached page
PageResult(pg) ==
    IF FirstIndicator(pg) # 0
    THEN [status |-> "error",
          reason |-> Msg("Amazon returned an error page: {indicator}", FirstIndicator(pg), "")]
    ELSE ExtractionResult(pg)

\* the same, tabulated over the pages of the model
RECURSIVE PageResultsUpTo(_)
PageResultsUpTo(n) ==
    IF n = 0 THEN <<>> ELSE Append(PageResultsUpTo(n - 1), PageResult(Pages[n]))

PageResultOf == PageResultsUpTo(Len(Pages))

(***************************************************************************)
(* scrape_product_detail (scraper.py:468-651)                              *)
(***************************************************************************)
PathIndex(url) == CHOOSE i \in DOMAIN Paths : Paths[i] = url.path

\* what the detail chains resolve on the item's page when the visit succeeds:
\* items with an odd index have a full detail page, the others a page on
\* which no chain matches
DetailResolved(url) ==
    IF PathIndex(url) % 2 = 1
    THEN [detail_name |-> Names[PathIndex(url)], brand |-> "Logitech",
          seller |-> "Amazon.com", is_prime |-> TRUE, rating |-> 4,
          review_count |-> 25 * PathIndex(url), price |-> 20 + PathIndex(url),
          url |-> url]
    ELSE [detail_name |-> "N/A", brand |-> "N/A", seller |-> "N/A",
          is_prime |-> FALSE, rating |-> 0, review_count |-> 0, price |-> 0,
          url |-> url]

\* scraper.py:640-651  the record returned when the visit raises
DetailError(url) ==
    [detail_name |-> "ERROR", brand |-> "N/A", seller |-> "N/A",
     is_prime |-> FALSE, rating |-> 0, review_count |-> 0, price |-> 0,
     url |-> url]

\* scraper.py:477-651
scrape_product_detail(url, ok) == IF ok THEN DetailResolved(url) ELSE DetailError(url)


(***************************************************************************)
(* save_to_database (scraper.py:714-830) on the store of models.py.        *)
(* The store is the committed content of the two tables; the ORM session   *)
(* is created with autoflush=False (models.py:92), so a query inside the   *)
(* loop sees the committed rows only, never the rows added by this call.   *)
(***************************************************************************)
\* faults of the store the environment may inject into one call
DbFaults == {"none", "connect", "query", "commit", "count"}

\* scraper.py:745  f"CPG_{session_start_time:%Y%m%d_%H%M%S}_{i+1:03d}"
product_id_of(t, i) == <<t, i>>

\* mutant: the duplicate test never finds a row
existing_mutNever(d, db) == FALSE

\* scraper.py:748-751  the duplicate test of one item against the store
existing(d, db) ==
    /\ Get(d, "url", NoUrl) # NoUrl
    /\ \E j \in DOMAIN db : db[j].product_url = Get(d, "url", NoUrl)

\* scraper.py:757-770  the Product built for item i (1-based) of the batch
NewProduct(d, i, kw, t) ==
    [product_id |-> product_id_of(t, i),
     product_title |-> Get(d, "name", Get(d, "detail_name", "N/A")),
     product_category |-> kw,
     discounted_price |-> Get(d, "price", 0),
     product_rating |-> Get(d, "rating", 0),
     total_reviews |-> Get(d, "review_count", 0),
     purchased_last_month |-> Max(1, Get(d, "review_count", 0) \div 10),
     brand |-> IF Get(d, "brand", None) \notin {"N/A", None} THEN d.brand ELSE None,
     seller |-> IF Get(d, "seller", None) \notin {"N/A", None} THEN d.seller ELSE None,
     is_prime |-> Get(d, "is_prime", FALSE),
     product_url |-> Get(d, "url", NoUrl)]

\* scraper.py:743-774  the rows session.add()ed by the loop from item i on
RECURSIVE PendingFrom(_, _, _, _, _)
PendingFrom(data, i, db, kw, t) ==
    IF i > Len(data) THEN <<>>
    ELSE (IF existing(data[i], db) THEN <<>>
          ELSE <<NewProduct(data[i], i, kw, t)>>)
         \o PendingFrom(data, i + 1, db, kw, t)

\* scraper.py:752  products_skipped after the loop
SkippedCount(data, db) == Cardinality({i \in DOMAIN data : existing(data[i], db)})

\* models.py:22  unique=True on product_id, enforced at flush
IdCollision(db, pending) ==
    \E i \in DOMAIN pending :
        \/ \E j \in DOMAIN db : db[j].product_id = pending[i].product_id
        \/ \E j \in DOMAIN pending : j # i /\ pending[j].product_id = pending[i].product_id

\* scraper.py:777-785 and 813-821  a ScrapingSession row; "by" is not a
\* column: it records the request whose call wrote the row
Audit(kw, found, saved, status, error, t, r) ==
    [keyword |-> kw, products_found |-> found, products_saved |-> saved,
     session_status |-> status, error_message |-> error, started_at |-> t, by |-> r]

\* mutant: the audit of a run that added nothing is "completed" as well
session_status_mutAlwaysCompleted(products_added) == "completed"

\* scraper.py:780  session_status of the audit written with the items
session_status(products_added) ==
    IF products_added > 0 THEN "completed" ELSE "partial"

\* mutant: the rollback of scraper.py:807 is missing, the failure audit's
\* commit flushes the pending rows with it
AfterRollback_mutNoRollback(db, pending) == db \o pending

\* scraper.py:807  session.rollback(): the pending rows are gone
AfterRollback(db, pending) == db

\* mutant: the rows are counted as they were before the commit
CountAfterCommit_mutBeforeCommit(db, pending) == Len(db)

\* scraper.py:795  session.query(Product).count() after the commit of
\* scraper.py:789
CountAfterCommit(db, pending) == Len(db \o pending)

\* the exception of the commit of the failure audit (scraper.py:822) when
\* the store fails once more
SecondaryError == "OperationalError in failure audit"

\* mutant: the handler of scraper.py:823 raises what it caught
Swallowed_mutReraise(exc) == exc

\* scraper.py:823-824  "except: pass": what leaves the handler ("": nothing)
Swallowed(exc) == ""

\* mutant: the session is left open when the failure audit was not written
close_session_mutSkipAfterSecondary(secondary) ==
    IF secondary = "" THEN "closed" ELSE "open"

\* scraper.py:829-830, models.py:108-112  finally: close_session(session);
\* the state of the ORM session after it
close_session(secondary) == "closed"

\* scraper.py:726-830  save_to_database(products_data, keyword) called by
\* request r at time t on the store (db, ss) under the fault: the store
\* after the call, the returned dict, the exception that escapes
\* ("": none), the state of the ORM session of the call ("none": never
\* created) and the exception met when writing the failure audit
save_to_database(products_data, kw, db, ss, t, fault, auditFault, r) ==
    IF products_data = <<>>
    THEN [products |-> db, sessions |-> ss, raised |-> "",
          session |-> "none", secondary |-> "",
          result |-> [success |-> FALSE, message |-> Msg("no data", 0, "")]]
    ELSE IF fault = "connect"
    THEN [products |-> db, sessions |-> ss, raised |-> "OperationalError in connect",
          session |-> "none", secondary |-> "",
          result |-> [success |-> FALSE, message |-> Msg("", 0, "OperationalError in connect")]]
    ELSE
    LET pending == PendingFrom(products_data, 1, db, kw, t)
        added == Len(pending)
        skipped == SkippedCount(products_data, db)
        loopExc == fault = "query" /\ \E i \in DOMAIN products_data :
                                          Get(products_data[i], "url", NoUrl) # NoUrl
        commitExc == ~loopExc /\ (fault = "commit" \/ IdCollision(db, pending))
        countExc == ~loopExc /\ ~commitExc /\ fault = "count"
        e == IF loopExc THEN "OperationalError in query"
             ELSE IF commitExc /\ fault # "commit" THEN "IntegrityError in commit"
             ELSE IF commitExc THEN "OperationalError in commit"
             ELSE "OperationalError in count"
        okAudit == Audit(kw, Len(products_data), added, session_status(added),
                         IF skipped > 0 THEN [kind |-> "skipped", text |-> ""]
                                        ELSE [kind |-> "none", text |-> ""],
                         t, r)
        failedAudit == Audit(kw, Len(products_data), 0, "failed",
                             [kind |-> "exception", text |-> e], t, r)
        dbTry == IF loopExc \/ commitExc THEN AfterRollback(db, pending)
                 ELSE db \o pending
        ssTry == IF loopExc \/ commitExc THEN ss ELSE Append(ss, okAudit)
        secondary == IF auditFault THEN SecondaryError ELSE ""
    IN  IF loopExc \/ commitExc \/ countExc
        THEN [products |-> dbTry,
              sessions |-> IF auditFault THEN ssTry ELSE Append(ssTry, failedAudit),
              raised |-> Swallowed(secondary),
              session |-> close_session(secondary), secondary |-> secondary,
              result |-> [success |-> FALSE,
                          message |-> Msg("database save error: {e}", 0, e)]]
        ELSE [products |-> dbTry, sessions |-> ssTry, raised |-> "",
              session |-> close_session(""), secondary |-> "",
              result |-> [success |-> TRUE, products_added |-> added,
                          products_skipped |-> skipped,
                          total_products_in_db |-> CountAfterCommit(db, pending),
                          message |-> Msg("saved {products_added} products", 0, "")]]


(***************************************************************************)
(* The analyzer (analyzer_v2.py) and main.py                               *)
(***************************************************************************)
\* main.py:136  existing_count < 30
ExistingThreshold == 30

\* analyzer_v2.py:79-85  competitor_count of a category (price_range is
\* the default (0, 999999))
competitor_count(category, db) ==
    Cardinality({j \in DOMAIN db :
                    /\ db[j].product_category = category
                    /\ db[j].discounted_price >= 0
                    /\ db[j].discounted_price <= 999999})

\* mutant: the detail loop runs over every record
EnrichPrefix_mutNoCap(basic) == basic

\* mutant: the detail loop skips the first record
EnrichPrefix_mutSkipFirst(basic) == Take(Tail(basic), DetailCap)

\* scraper.py:852  the records that get a detail visit
EnrichPrefix(basic) == Take(basic, DetailCap)

\* db_result before scrape_and_save_to_db returned
NoResult == [unset |-> TRUE]

\* scraper.py:292-293  products_found = False; for attempt in range(10)
PollLimit == 10
NoPolls == [n |-> 0, found |-> FALSE]

(***************************************************************************)
(* State                                                                   *)
(***************************************************************************)
VARIABLES
    pc,                 \* per request: position in create_report
    keyword,            \* per request: the form field
    browser,            \* per request: scraper.browser ("none", "open", "closed";
                        \* "dead": closed by somebody else under the run)
    page,               \* per request: the results page loaded in scraper.page
    attempt,            \* per request: loop variable of scraper.py:199
    trace,              \* per request: the navigations of the search in progress
    products_basic,     \* per request: scraper.py:845-847
    detailed_products,  \* per request: scraper.py:851-858
    db_result,          \* per request: main.py:144
    raised,             \* per request: the exception that left the run ("": none)
    outcome,            \* per request: what create_report returned
    pre_products,       \* per request: the products table when the run began
    lock_locked,        \* scraping_lock._locked
    lock_waiters,       \* scraping_lock._waiters
    lock_woken,         \* the waiters whose future release() has resolved
    products,           \* table products (committed rows, in insertion order)
    sessions,           \* table scraping_sessions
    now,                \* the clock read by datetime.utcnow()
    db_faults,          \* number of store faults injected so far
    files,              \* the working directory: how often each file was written
    orm_session,        \* the last save_to_database call: who called, the state of
                        \* its ORM session, the exception of its failure audit
    polls,              \* per request: the wait for the product list in progress:
                        \* polls made (scraper.py:293) and products_found
    cache,              \* keywords with an entry in the result cache
    lru,                \* lru_cache of analyze_category_competition: competitor_count
    scraper,            \* one AmazonScraper object driven by any caller: self.browser
                        \* and self.page (0: None, else the handle of a browser)
    playwright,         \* what that object started: driver processes running,
                        \* browsers launched, browsers alive
    last_call,          \* the last method called on that object, whether it raised,
                        \* and what happened in it
    delays,             \* the pacing sleeps of the direct attempts of one search
    chain               \* one selector chain of scrape_search_page: which chain, what
                        \* each of its selectors meets in the DOM, and what was used

\* the variables of create_report and of the store
mainVars == <<pc, keyword, browser, page, attempt, trace, products_basic,
              detailed_products, db_result, raised, outcome, pre_products,
              lock_locked, lock_waiters, lock_woken, products, sessions, now,
              db_faults, orm_session, files, cache, lru, polls>>

\* the variables of the AmazonScraper object driven on its own
objVars == <<scraper, playwright, last_call>>

\* the variables of the parts of scrape_search_page exercised on their own
unitVars == <<delays, chain>>

vars == <<mainVars, objVars, unitVars>>

reqVars == <<page, attempt, trace, products_basic, detailed_products, db_result,
             raised, outcome, pre_products>>
lockVars == <<lock_locked, lock_waiters, lock_woken>>
storeVars == <<products, sessions, db_faults, orm_session, files>>

\* the store left by a run of an earlier process: three items of the
\* "wireless mouse" category, written at time 0
EarlierRun ==
    save_to_database(
        [i \in 1..3 |-> Merge([name |-> Names[i + 1], price |-> 11 + i, url |-> AbsHref(i + 1)],
                              DetailError(AbsHref(i + 1)))],
        "wireless mouse", <<>>, <<>>, 0, "none", FALSE, 0)

\* the store left by earlier runs once it holds enough items of the
\* "usb hub" category for main.py:136 to skip the acquisition
StockPaths == <<"/dp/S001", "/dp/S002", "/dp/S003", "/dp/S004", "/dp/S005", "/dp/S006", "/dp/S007", "/dp/S008", "/dp/S009", "/dp/S010", "/dp/S011", "/dp/S012", "/dp/S013", "/dp/S014", "/dp/S015", "/dp/S016", "/dp/S017", "/dp/S018", "/dp/S019", "/dp/S020", "/dp/S021", "/dp/S022", "/dp/S023", "/dp/S024", "/dp/S025", "/dp/S026", "/dp/S027", "/dp/S028", "/dp/S029", "/dp/S030">>
StockedStore ==
    save_to_database(
        [i \in 1..ExistingThreshold |->
            [name |-> Names[2], price |-> 20, url |-> [host |-> AmazonHost, path |-> StockPaths[i]]]],
        "usb hub", <<>>, <<>>, 0, "none", FALSE, 0)

Init ==
    /\ pc = [r \in Reqs |-> "start"]
    \* the requests are interchangeable: the keyword of the first is fixed
    /\ keyword \in {k \in [Reqs -> Keywords] : k[1] = "wireless mouse"}
    /\ browser = [r \in Reqs |-> "none"]
    /\ page = [r \in Reqs |-> NoPage]
    /\ attempt = [r \in Reqs |-> 0]
    /\ trace = [r \in Reqs |-> <<>>]
    /\ products_basic = [r \in Reqs |-> <<>>]
    /\ detailed_products = [r \in Reqs |-> <<>>]
    /\ db_result = [r \in Reqs |-> NoResult]
    /\ raised = [r \in Reqs |-> ""]
    /\ outcome = [r \in Reqs |-> ""]
    /\ pre_products = [r \in Reqs |-> <<>>]
    /\ polls = [r \in Reqs |-> NoPolls]
    /\ lock_locked = FALSE
    /\ lock_waiters = <<>>
    /\ lock_woken = {}
    /\ \E s \in {[products |-> <<>>, sessions |-> <<>>], EarlierRun, StockedStore} :
          /\ products = s.products /\ sessions = s.sessions
          /\ s = StockedStore => keyword[2] = "usb hub"
    /\ now = 0
    /\ db_faults = 0
    /\ orm_session = [by |-> 0, session |-> "none", secondary |-> ""]
    /\ files = [f \in {"error_page.html", "debug_container.html"} |-> 0]
    \* the entries an earlier request left in Redis less than an hour ago
    /\ cache \in {{}, {"usb hub"}}
    /\ cache # {} => keyword[2] = "usb hub" /\ products = <<>>
    /\ lru = [k \in Keywords |-> -1]
    \* scraper.py:30-32  __init__
    /\ scraper = [browser |-> 0, page |-> 0]
    /\ playwright = [drivers |-> 0, launched |-> 0, live |-> {}]
    /\ last_call = [method |-> "__init__", raised |-> FALSE, how |-> ""]
    /\ delays = <<>>
    /\ chain = [kind |-> "none", candidates |-> <<>>, used |-> [sel |-> -1]]


(***************************************************************************)
(* scraping_lock = asyncio.Lock() (main.py:64) and "async with" (142)      *)
(***************************************************************************)
\* mutant: acquire() does not look at the lock's state
LockFree_mutAlways == TRUE

\* asyncio.Lock.acquire: the fast path is taken when the lock is not held
\* and nobody is queued
LockFree == ~lock_locked /\ lock_waiters = <<>>

\* mutant: release() resolves no waiter's future
WokenAfterRelease_mutLost == lock_woken

\* asyncio.Lock.release: _wake_up_first resolves the first waiter's future
WokenAfterRelease ==
    IF lock_waiters = <<>> THEN lock_woken ELSE lock_woken \cup {Head(lock_waiters)}

Remove(seq, r) == SelectSeq(seq, LAMBDA x : x # r)

\* mutant: a waiter goes on without its future having been resolved
MayResume_mutAlways(r) == TRUE

\* asyncio.Lock.acquire: "await fut" returns once release() resolved it
MayResume(r) == r \in lock_woken

\* mutant: __aexit__ keeps the lock when the body raised
LockedAfterExit_mutLeakOnRaise(r) == raised[r] # ""

\* main.py:142  "async with": __aexit__ calls release() on return and on
\* exception alike; the value of scraping_lock._locked after it
LockedAfterExit(r) == FALSE

(***************************************************************************)
(* create_report (main.py:86-190), one action per stretch between awaits   *)
(***************************************************************************)
\* mutant: the cache is looked up after the browser was started, and the
\* finally block closes it
CacheHit_mutAfterLaunch(r) ==
    /\ pc[r] = "start"
    /\ keyword[r] \in cache
    /\ pc' = [pc EXCEPT ![r] = "done"]
    /\ outcome' = [outcome EXCEPT ![r] = "cached"]
    /\ browser' = [browser EXCEPT ![r] = "closed"]
    /\ UNCHANGED <<keyword, page, attempt, trace, products_basic,
                   detailed_products, db_result, raised, pre_products,
                   lockVars, storeVars, now, cache, lru>>
    /\ UNCHANGED <<polls, objVars, unitVars>>

\* main.py:104-112  cache hit: the cached report is returned; scraper is
\* None, so the finally block closes nothing
CacheHit(r) ==
    /\ pc[r] = "start"
    /\ keyword[r] \in cache
    /\ pc' = [pc EXCEPT ![r] = "done"]
    /\ outcome' = [outcome EXCEPT ![r] = "cached"]
    /\ UNCHANGED <<keyword, browser, page, attempt, trace, products_basic,
                   detailed_products, db_result, raised, pre_products,
                   lockVars, storeVars, now, cache, lru>>
    /\ UNCHANGED <<polls, objVars, unitVars>>

\* main.py:104-119  cache miss
CacheMiss(r) ==
    /\ pc[r] = "start"
    /\ keyword[r] \notin cache
    /\ pc' = [pc EXCEPT ![r] = "launch"]
    /\ UNCHANGED <<keyword, browser, reqVars, lockVars, storeVars, now, cache, lru>>
    /\ UNCHANGED <<polls, objVars, unitVars>>

\* main.py:119-123, scraper.py:34-172  start_browser: it returns with the
\* browser open (a warm-up failure is swallowed, 157-172), or raises into
\* main.py:176, either from the launch (37-66, self.browser still None) or
\* from a later step (68-154, self.browser set)
StartBrowser(r) ==
    /\ pc[r] = "launch"
    /\ \E how \in {"started", "launch failed", "setup failed"} :
          /\ browser' = [browser EXCEPT ![r] =
                            IF how = "launch failed" THEN "none" ELSE "open"]
          /\ IF how = "started"
             THEN /\ pc' = [pc EXCEPT ![r] = "data_check"]
                  /\ UNCHANGED <<raised, outcome>>
             ELSE /\ raised' = [raised EXCEPT ![r] = "Error"]
                  /\ outcome' = [outcome EXCEPT ![r] = "error"]
                  /\ pc' = [pc EXCEPT ![r] = "finally"]
    /\ UNCHANGED <<keyword, page, attempt, trace, products_basic, detailed_products,
                   db_result, pre_products, lockVars, storeVars, now, cache, lru>>
    /\ UNCHANGED <<polls, objVars, unitVars>>

\* analyzer_v2.py:61-62  @lru_cache: the first call for a category
\* computes, later calls return what the first one returned
lru_after(category) ==
    IF lru[category] = -1
    THEN [lru EXCEPT ![category] = competitor_count(category, products)]
    ELSE lru

\* main.py:126-137 and 155  the existing-data check
DataCheck(r) ==
    /\ pc[r] = "data_check"
    /\ lru' = lru_after(keyword[r])
    /\ pc' = [pc EXCEPT ![r] =
                IF lru'[keyword[r]] < ExistingThreshold THEN "lock" ELSE "analyze"]
    /\ UNCHANGED <<keyword, browser, reqVars, lockVars, storeVars, now, cache>>
    /\ UNCHANGED <<polls, objVars, unitVars>>

\* main.py:142  async with scraping_lock: __aenter__
AcquireLock(r) ==
    /\ pc[r] = "lock"
    /\ IF LockFree
       THEN /\ lock_locked' = TRUE
            /\ pc' = [pc EXCEPT ![r] = "nav"]
            /\ pre_products' = [pre_products EXCEPT ![r] = products]
            /\ UNCHANGED <<lock_waiters, lock_woken>>
       ELSE /\ lock_waiters' = Append(lock_waiters, r)
            /\ pc' = [pc EXCEPT ![r] = "waiting"]
            /\ UNCHANGED <<lock_locked, lock_woken, pre_products>>
    /\ UNCHANGED <<keyword, browser, page, attempt, trace, products_basic,
                   detailed_products, db_result, raised, outcome,
                   storeVars, now, cache, lru>>
    /\ UNCHANGED <<polls, objVars, unitVars>>

\* asyncio.Lock.acquire resumed after its future was resolved
WakeUp(r) ==
    /\ pc[r] = "waiting"
    /\ MayResume(r)
    /\ lock_waiters' = Remove(lock_waiters, r)
    /\ lock_woken' = lock_woken \ {r}
    /\ lock_locked' = TRUE
    /\ pc' = [pc EXCEPT ![r] = "nav"]
    /\ pre_products' = [pre_products EXCEPT ![r] = products]
    /\ UNCHANGED <<keyword, browser, page, attempt, trace, products_basic,
                   detailed_products, db_result, raised, outcome,
                   storeVars, now, cache, lru>>
    /\ UNCHANGED <<polls, objVars, unitVars>>


(***************************************************************************)
(* scrape_and_save_to_db (scraper.py:832-869), run under the lock          *)
(***************************************************************************)
\* a page.goto of the run: where to ("search", "root" or "detail"), the
\* product URL of a detail visit, and whether it succeeded
Goto(to, url, ok) == [to |-> to, url |-> url, ok |-> ok]

\* scraper.py:843  the dict returned when scrape_search_page failed
Failure(reason) == [success |-> FALSE, message |-> reason]

\* the browser of request r is gone: every call on scraper.page raises
\* "Target page, context or browser has been closed"
Dead(r) == browser[r] = "dead"

\* the environment (the site, the user, the operating system) closes the
\* browser of a run in flight
SessionClosed(r) ==
    /\ pc[r] \in {"nav", "fallback", "classify", "extract", "detail"}
    /\ browser[r] = "open"
    /\ Cardinality({q \in Reqs : Dead(q)}) < MaxSessionCloses
    /\ browser' = [browser EXCEPT ![r] = "dead"]
    /\ UNCHANGED <<pc, keyword, reqVars, lockVars, storeVars, now, cache, lru>>
    /\ UNCHANGED <<polls, objVars, unitVars>>

\* mutant: the indirect path is taken after the first failed attempt
LastAttempt_mutFirst(a) == a = 0

\* scraper.py:217  attempt == max_retries - 1
LastAttempt(a) == a = max_retries - 1

\* the reason returned by the handler of scraper.py:253-255
Unreachable(exc) == Msg("error while interacting with the page: {e}", 0, exc)

\* scraper.py:199-217 and 251  one direct attempt: the pacing sleep, then
\* page.goto(search_url); a failure before the last attempt is retried.
\* The clock is coarse: the first pacing sleep of a run (at least 7 s)
\* takes it to the next tick.
Nav(r) ==
    /\ pc[r] = "nav"
    /\ now' = IF attempt[r] = 0 THEN now + 1 ELSE now
    /\ \E ok \in BOOLEAN :
          /\ Dead(r) => ~ok
          /\ trace' = [trace EXCEPT ![r] = Append(@, Goto("search", NoUrl, ok))]
          /\ IF ok
             THEN /\ \E p \in PageIds : page' = [page EXCEPT ![r] = p]
                  /\ pc' = [pc EXCEPT ![r] = "classify"]
                  /\ UNCHANGED attempt
             ELSE /\ IF LastAttempt(attempt[r])
                     THEN pc' = [pc EXCEPT ![r] = "fallback"] /\ UNCHANGED attempt
                     ELSE pc' = pc /\ attempt' = [attempt EXCEPT ![r] = @ + 1]
                  /\ UNCHANGED page
    /\ UNCHANGED <<keyword, browser, products_basic, detailed_products, db_result,
                   raised, outcome, pre_products, lockVars, storeVars, cache, lru>>
    /\ UNCHANGED <<polls, objVars, unitVars>>

\* scraper.py:217-255  the indirect path after the last direct attempt
\* failed: site root, type the keyword, submit; any failure on it leaves
\* through the handler of scraper.py:253
Fallback(r) ==
    /\ pc[r] = "fallback"
    /\ \E ok \in BOOLEAN :
          /\ Dead(r) => ~ok
          /\ trace' = [trace EXCEPT ![r] = Append(@, Goto("root", NoUrl, ok))]
          /\ IF ok
             THEN /\ \E p \in PageIds : page' = [page EXCEPT ![r] = p]
                  /\ pc' = [pc EXCEPT ![r] = "classify"]
                  /\ UNCHANGED db_result
             ELSE /\ db_result' = [db_result EXCEPT ![r] =
                        Failure(Unreachable(IF Dead(r) THEN "TargetClosedError"
                                                       ELSE "TimeoutError"))]
                  /\ pc' = [pc EXCEPT ![r] = "release"]
                  /\ UNCHANGED page
    /\ UNCHANGED <<keyword, browser, attempt, products_basic, detailed_products,
                   raised, outcome, pre_products, lockVars, storeVars, now, cache, lru>>
    /\ UNCHANGED <<polls, objVars, unitVars>>

\* scraper.py:257-275 and 839-843  the error-page check on the page
\* reached; page.title() and page.content() are called outside any try, so
\* on a closed browser their exception leaves scrape_and_save_to_db
Classify(r) ==
    /\ pc[r] = "classify"
    /\ IF Dead(r)
       THEN /\ raised' = [raised EXCEPT ![r] = "TargetClosedError"]
            /\ pc' = [pc EXCEPT ![r] = "release"]
            /\ UNCHANGED db_result
       ELSE IF PageResultOf[page[r]].status = "error"
               /\ PageResultOf[page[r]].reason.indicator # 0
       THEN /\ db_result' = [db_result EXCEPT ![r] =
                                Failure(PageResultOf[page[r]].reason)]
            /\ pc' = [pc EXCEPT ![r] = "release"]
            /\ UNCHANGED raised
       ELSE /\ pc' = [pc EXCEPT ![r] = "extract"]
            /\ UNCHANGED <<db_result, raised>>
    /\ UNCHANGED <<keyword, browser, page, attempt, trace, products_basic,
                   detailed_products, outcome, pre_products,
                   lockVars, storeVars, now, cache, lru>>
    /\ UNCHANGED <<polls, objVars, unitVars>>

\* scraper.py:303-304  one of the poll selectors matches on the page: they
\* are the item selectors of scraper.py:363-370 and one more, looked up
\* in the whole page
PollSees(pg) == pg.itemsels # {}

\* mutant: the wait gives up only after twice as many polls
PollingOver_mutTwenty(r) == polls[r].found \/ polls[r].n = 2 * PollLimit

\* scraper.py:293 and 307-308  the wait is over: products_found, or the
\* range is exhausted
PollingOver(r) == polls[r].found \/ polls[r].n = PollLimit

\* scraper.py:293-310  one poll of the wait for the product list: every
\* poll selector is tried; an exception of query_selector_all (closed
\* browser) is swallowed by the bare except of 303; without a match the
\* coroutine sleeps a second and polls again
Poll(r) ==
    /\ pc[r] = "extract"
    /\ ~PollingOver(r)
    /\ polls' = [polls EXCEPT ![r] =
                    [n |-> @.n + 1, found |-> ~Dead(r) /\ PollSees(Pages[page[r]])]]
    /\ UNCHANGED <<pc, keyword, browser, reqVars, lockVars, storeVars, now, cache, lru>>
    /\ UNCHANGED <<objVars, unitVars>>

\* scraper.py:339-343  the dict returned when query_selector raises on a
\* closed browser
BrowserClosedReason == Msg("the browser was closed by Amazon", 0, "")

\* scraper.py:277-466 and 839-848  container, item elements, records.  On
\* a closed browser the polls swallow the exception (303), the container
\* lookup turns it into an error dict (339-343), and inner_html (358),
\* reached when the browser goes after the lookup, lets it escape
Extract(r) ==
    /\ pc[r] = "extract"
    /\ PollingOver(r)
    /\ LET res == PageResultOf[page[r]]
       IN  IF Dead(r)
           THEN \E at \in {"query_selector", "inner_html"} :
                  /\ at = "inner_html" => product_list_container(Pages[page[r]]) # 0
                  /\ IF at = "query_selector"
                     THEN /\ db_result' = [db_result EXCEPT ![r] = Failure(BrowserClosedReason)]
                          /\ UNCHANGED raised
                     ELSE /\ raised' = [raised EXCEPT ![r] = "TargetClosedError"]
                          /\ UNCHANGED db_result
                  /\ pc' = [pc EXCEPT ![r] = "release"]
                  /\ UNCHANGED <<products_basic, files>>
           ELSE IF res.status = "error"
           THEN /\ db_result' = [db_result EXCEPT ![r] = Failure(res.reason)]
                /\ files' = IF FileWrittenOn[page[r]] = "" THEN files
                            ELSE [files EXCEPT ![FileWrittenOn[page[r]]] = @ + 1]
                /\ pc' = [pc EXCEPT ![r] = "release"]
                /\ UNCHANGED <<products_basic, raised>>
           ELSE /\ products_basic' = [products_basic EXCEPT ![r] =
                                         Take(res.data, max_products)]
                /\ pc' = [pc EXCEPT ![r] =
                            IF EnrichPrefix(Take(res.data, max_products)) = <<>>
                            THEN "persist" ELSE "detail"]
                /\ UNCHANGED <<db_result, raised, files>>
    /\ trace' = [trace EXCEPT ![r] = <<>>]
    /\ attempt' = [attempt EXCEPT ![r] = 0]
    /\ UNCHANGED <<keyword, browser, page, detailed_products,
                   outcome, pre_products, lockVars, products, sessions, db_faults,
                   orm_session, now, cache, lru>>
    /\ polls' = [polls EXCEPT ![r] = NoPolls]
    /\ UNCHANGED <<objVars, unitVars>>

\* number of detail visits of the run that failed so far
DetailFailures(r) ==
    Cardinality({i \in DOMAIN detailed_products[r] :
                    detailed_products[r][i].detail_name = "ERROR"})

\* mutant: a failed visit ends the detail loop
LoopDone_mutAbortOnError(i, n, ok) == i = n \/ ~ok

\* scraper.py:852  the for loop is over after the last selected record,
\* whatever the visits returned
LoopDone(i, n, ok) == i = n

\* scraper.py:852-861  one iteration of the detail loop
Detail(r) ==
    /\ pc[r] = "detail"
    /\ LET i == Len(detailed_products[r]) + 1
           product == EnrichPrefix(products_basic[r])[i]
       IN  \E ok \in BOOLEAN :
             /\ Dead(r) => ~ok
             /\ ok \/ Dead(r) \/ DetailFailures(r) < MaxDetailFailures
             /\ trace' = [trace EXCEPT ![r] = Append(@, Goto("detail", product.url, ok))]
             /\ detailed_products' = [detailed_products EXCEPT ![r] =
                   Append(@, Merge(product, scrape_product_detail(product.url, ok)))]
             /\ pc' = [pc EXCEPT ![r] =
                         IF LoopDone(i, Len(EnrichPrefix(products_basic[r])), ok)
                         THEN "persist" ELSE "detail"]
    /\ UNCHANGED <<keyword, browser, page, attempt, products_basic, db_result,
                   raised, outcome, pre_products, lockVars, storeVars, now, cache, lru>>
    /\ UNCHANGED <<polls, objVars, unitVars>>

\* scraper.py:864-869  save_to_database(detailed_products, keyword)
Persist(r) ==
    /\ pc[r] = "persist"
    /\ \E fault \in DbFaults, auditFault \in BOOLEAN :
          LET res == save_to_database(detailed_products[r], keyword[r],
                                      products, sessions, now, fault, auditFault, r)
              injected == IF fault = "none" THEN 0 ELSE 1
          IN  /\ db_faults + injected <= MaxDbFaults
              /\ auditFault => fault \in {"query", "commit", "count"}
              /\ db_faults' = db_faults + injected
              /\ products' = res.products
              /\ sessions' = res.sessions
              /\ orm_session' = [by |-> r, session |-> res.session,
                                 secondary |-> res.secondary]
              /\ raised' = [raised EXCEPT ![r] = res.raised]
              /\ db_result' = [db_result EXCEPT ![r] =
                                  IF res.raised = "" THEN res.result ELSE NoResult]
    /\ pc' = [pc EXCEPT ![r] = "release"]
    /\ UNCHANGED <<keyword, browser, page, attempt, trace, products_basic,
                   detailed_products, outcome, pre_products, lockVars, files, now, cache, lru>>
    /\ UNCHANGED <<polls, objVars, unitVars>>

\* mutant: the test of db_result after the gate is missing
RunSucceeded_mutAlways(r) == TRUE

\* the run neither raised nor returned a failure (main.py:146)
RunSucceeded(r) == raised[r] = "" /\ Get(db_result[r], "success", FALSE)

\* main.py:142-153 and 176-180  async with scraping_lock: __aexit__, on
\* return and on exception alike, and the test of db_result that follows
\* it without a suspension; the locals of scrape_and_save_to_db are gone
Release(r) ==
    /\ pc[r] = "release"
    /\ lock_locked' = LockedAfterExit(r)
    /\ lock_woken' = WokenAfterRelease
    /\ IF RunSucceeded(r)
       THEN pc' = [pc EXCEPT ![r] = "analyze"] /\ UNCHANGED outcome
       ELSE /\ pc' = [pc EXCEPT ![r] = "finally"]
            /\ outcome' = [outcome EXCEPT ![r] = "error"]
    /\ attempt' = [attempt EXCEPT ![r] = 0]
    /\ trace' = [trace EXCEPT ![r] = <<>>]
    /\ products_basic' = [products_basic EXCEPT ![r] = <<>>]
    /\ detailed_products' = [detailed_products EXCEPT ![r] = <<>>]
    /\ pre_products' = [pre_products EXCEPT ![r] = <<>>]
    /\ UNCHANGED <<keyword, browser, page, db_result, raised, lock_waiters,
                   storeVars, now, cache, lru>>
    /\ UNCHANGED <<polls, objVars, unitVars>>

\* main.py:157-174  analysis, cache entry, report
Analyze(r) ==
    /\ pc[r] = "analyze"
    /\ lru' = lru_after(keyword[r])
    /\ cache' = cache \cup {keyword[r]}
    /\ outcome' = [outcome EXCEPT ![r] = "report"]
    /\ pc' = [pc EXCEPT ![r] = "finally"]
    /\ UNCHANGED <<keyword, browser, page, attempt, trace, products_basic,
                   detailed_products, db_result, raised, pre_products,
                   lockVars, storeVars, now>>
    /\ UNCHANGED <<polls, objVars, unitVars>>

\* mutant: the handler closes the browser on the report path only
BrowserAfterClose_mutSkipOnError(r) ==
    IF outcome[r] = "error" \/ browser[r] = "none" THEN browser[r] ELSE "closed"

\* main.py:187-188, scraper.py:176-177  "if scraper" and "if self.browser":
\* a browser that was launched is closed, a closed one stays closed
BrowserAfterClose(r) == IF browser[r] = "none" THEN "none" ELSE "closed"

\* main.py:186-190, scraper.py:174-178  finally: close_browser; the
\* handler returns, its locals and the scraper object are gone
Finally(r) ==
    /\ pc[r] = "finally"
    /\ browser' = [browser EXCEPT ![r] = BrowserAfterClose(r)]
    /\ page' = [page EXCEPT ![r] = NoPage]
    /\ db_result' = [db_result EXCEPT ![r] = NoResult]
    /\ raised' = [raised EXCEPT ![r] = ""]
    /\ pc' = [pc EXCEPT ![r] = "done"]
    /\ UNCHANGED <<keyword, attempt, trace, products_basic, detailed_products,
                   outcome, pre_products, lockVars, storeVars, now, cache, lru>>
    /\ UNCHANGED <<polls, objVars, unitVars>>

\* a step of one request
Next ==
    \E r \in Reqs :
        \/ CacheHit(r)
        \/ CacheMiss(r)
        \/ StartBrowser(r)
        \/ SessionClosed(r)
        \/ DataCheck(r)
        \/ AcquireLock(r)
        \/ WakeUp(r)
        \/ Nav(r)
        \/ Fallback(r)
        \/ Classify(r)
        \/ Poll(r)
        \/ Extract(r)
        \/ Detail(r)
        \/ Persist(r)
        \/ Release(r)
        \/ Analyze(r)
        \/ Finally(r)

Spec == Init /\ [][Next]_vars

\* a step of the coroutine of request r outside save_to_database; the
\* closing of its browser by somebody else (SessionClosed) is a step of
\* the environment
RequestStep(r) ==
    \/ CacheHit(r) \/ CacheMiss(r) \/ StartBrowser(r) \/ DataCheck(r)
    \/ AcquireLock(r) \/ WakeUp(r) \/ Nav(r) \/ Fallback(r) \/ Classify(r)
    \/ Poll(r) \/ Extract(r) \/ Detail(r) \/ Release(r) \/ Analyze(r)
    \/ Finally(r)

\* save_to_database is synchronous and returns (a fault of the store is
\* caught in it): weak fairness of Persist(r), written out with its
\* enabling condition, which is the position alone since the call without
\* a fault is always possible
PersistReturns(r) == []<>(pc[r] # "persist") \/ []<><<Persist(r)>>_vars

\* the fair behaviours are explored from a cold start: empty store, empty
\* cache, both requests for the same keyword
FairInit == Init /\ products = <<>> /\ cache = {} /\ keyword[2] = keyword[1]

\* the event loop runs every task that is ready, and every page
\* operation returns or fails within its timeout: a request whose next
\* step is possible takes it
FairSpec ==
    /\ FairInit /\ [][Next]_vars
    /\ \A r \in Reqs : WF_vars(RequestStep(r)) /\ PersistReturns(r)


(***************************************************************************)
(* AmazonScraper.start_browser and close_browser (scraper.py:34-178) on    *)
(* one object, called in any order by any caller                           *)
(***************************************************************************)
\* what may happen in a start_browser call: nothing, a failure of the
\* launch (37-66), of the set-up (68-154) or of a warm-up step on a page
\* that is still there (159-168), or the browser is closed under the warm-up
StartOutcomes ==
    {"started", "launch failed", "setup failed", "warm-up failed", "closed in warm-up"}

\* mutant: a failure in the warm-up leaves start_browser as an exception
start_browser_raises_mutWarmup(how) == how # "started"

\* scraper.py:157-172  the warm-up runs in a try whose handler only
\* prints: start_browser raises for a failure before the warm-up only
start_browser_raises(how) == how \in {"launch failed", "setup failed"}

\* scraper.py:34-172  start_browser: the driver is started (37), a browser
\* is launched and stored in self.browser (39-66), the context is set up
\* (68-107), the page is stored in self.page (109), the warm-up runs
\* (157-172); nothing looks at what self.browser holds.
start_browser(how) ==
    /\ playwright.drivers < MaxStarts
    /\ LET h == playwright.launched + 1
       IN  IF how = "launch failed"
           THEN /\ playwright' = [playwright EXCEPT !.drivers = @ + 1]
                /\ UNCHANGED scraper
           ELSE /\ playwright' = [drivers |-> playwright.drivers + 1,
                                  launched |-> h,
                                  live |-> IF how = "closed in warm-up"
                                           THEN playwright.live
                                           ELSE playwright.live \cup {h}]
                /\ scraper' = [browser |-> h,
                               page |-> IF how = "setup failed" THEN scraper.page ELSE h]
    /\ last_call' = [method |-> "start_browser", raised |-> start_browser_raises(how),
                     how |-> how]
    /\ UNCHANGED <<mainVars, unitVars>>

\* scraper.py:174-178  close_browser: self.browser.close() when
\* self.browser is set; self.browser and self.page keep their values and
\* the driver started at scraper.py:37 is never stopped
close_browser ==
    /\ playwright' = [playwright EXCEPT !.live =
                         IF scraper.browser # 0 THEN @ \ {scraper.browser} ELSE @]
    /\ last_call' = [method |-> "close_browser", raised |-> FALSE, how |-> ""]
    /\ UNCHANGED <<scraper, mainVars, unitVars>>

SessionInit ==
    /\ Init
    /\ keyword = [r \in Reqs |-> "wireless mouse"]
    /\ products = <<>>

SessionNext ==
    \/ \E how \in StartOutcomes : start_browser(how)
    \/ close_browser

SessionSpec == SessionInit /\ [][SessionNext]_vars


(***************************************************************************)
(* The pacing of the direct attempts (scraper.py:199-207): the sleeps of   *)
(* one search, for any value random.uniform returns.  Time is counted in   *)
(* ticks of 1/Ticks second.                                                *)
(***************************************************************************)
\* mutant: the base delay grows by two seconds an attempt
base_delay_mutStepTwo(a) == (5 + a * 2) * Ticks

\* scraper.py:203  base_delay = 5 + attempt * 3
base_delay(a) == (5 + a * 3) * Ticks

\* scraper.py:204  the values of random.uniform(2, 5) on the clock
RandomDelays == (2 * Ticks)..(5 * Ticks)

\* scraper.py:203-207  the sleep before page.goto of attempt a
Sleep(a, random_delay) ==
    [attempt |-> a, base_delay |-> base_delay(a), random_delay |-> random_delay,
     total_delay |-> base_delay(a) + random_delay]

\* scraper.py:199-207  the next direct attempt of the search sleeps
Pace ==
    /\ Len(delays) < max_retries
    /\ \E random_delay \in RandomDelays :
          delays' = Append(delays, Sleep(Len(delays), random_delay))
    /\ UNCHANGED <<mainVars, objVars, chain>>

PacingInit == SessionInit

PacingNext == Pace

PacingSpec == PacingInit /\ [][PacingNext]_vars


(***************************************************************************)
(* The selector chains of scrape_search_page (scraper.py:315-451) on any   *)
(* DOM.  A DOM is seen through what each selector of the chain meets in    *)
(* it; what the chain uses is the index of the selector (0: none) and the  *)
(* value taken from its match.                                             *)
(***************************************************************************)
\* number of selectors of each chain: selectors_to_try (315-327),
\* product_selectors (363-370), name_selectors (398-406), price_selectors
\* (433-441)
ChainLength == [container |-> 8, items |-> 6, name |-> 7, price |-> 7]

\* what query_selector does for one selector of selectors_to_try: it
\* returns None, raises (the page is still there), or returns an element
ContainerOutcomes == {"None", "raises", "element"}

\* what soup.select returns for one selector of product_selectors: the
\* number of elements
ItemOutcomes == {0, 2}

\* a text with what the filter of scraper.py:425-428 looks at: its length
\* and whether it holds one of invalid_texts
Text(text, length, promo) == [text |-> text, length |-> length, promo |-> promo]

\* select_one(selector) returned None
NoElement == [text |-> None, length |-> 0, promo |-> FALSE]

\* what one selector of name_selectors meets: no element, or an element
\* with one of these texts
NameOutcomes ==
    {NoElement, Text("USB Hub", 7, FALSE), Text("Limited time deal", 17, TRUE),
     Text("Logitech M185 Wireless Mouse", 28, FALSE)}

\* what one selector of price_selectors meets: no element, an element in
\* whose text the pattern of scraper.py:448 finds nothing (number -1), or
\* one in which it finds a number
NoNumber == -1
PriceOutcomes ==
    {[text |-> None, number |-> NoNumber], [text |-> "See options", number |-> NoNumber],
     [text |-> "$24.99", number |-> 24]}

Outcomes == [container |-> ContainerOutcomes, items |-> ItemOutcomes,
             name |-> NameOutcomes, price |-> PriceOutcomes]

\* what a chain used: the selector and the value (sel 0: the initial value)
Used(sel, value) == [sel |-> sel, value |-> value]

\* scraper.py:329-345  the loop over selectors_to_try from selector i on: an
\* element ends it, None and an exception go to the next selector
RECURSIVE ContainerFrom(_, _)
ContainerFrom(c, i) ==
    IF i > Len(c) THEN Used(0, "None")
    ELSE IF c[i] = "element" THEN Used(i, "element")
    ELSE ContainerFrom(c, i + 1)

\* scraper.py:362-376  the loop over product_selectors: the first list
\* that is not empty ends it
RECURSIVE ItemsFrom(_, _)
ItemsFrom(c, i) ==
    IF i > Len(c) THEN Used(0, 0)
    ELSE IF c[i] > 0 THEN Used(i, c[i])
    ELSE ItemsFrom(c, i + 1)

\* scraper.py:425-428  the filter of a candidate name
NameAccepted(t) ==
    /\ t.text # "" /\ t.text # "N/A" /\ t.length > 10 /\ ~t.promo

\* mutant: the loop over name_selectors has no break, the last accepted
\* candidate stays
RECURSIVE NameFrom_mutNoBreak(_, _)
NameFrom_mutNoBreak(c, i) ==
    IF i > Len(c) THEN Used(0, "N/A")
    ELSE LET later == NameFrom_mutNoBreak(c, i + 1)
         IN  IF later.sel # 0 THEN later
             ELSE IF c[i] # NoElement /\ NameAccepted(c[i]) THEN Used(i, c[i].text)
             ELSE later

\* scraper.py:389 and 408-430  the loop over name_selectors: name is
\* assigned from the first candidate the filter accepts
RECURSIVE NameFrom(_, _)
NameFrom(c, i) ==
    IF i > Len(c) THEN Used(0, "N/A")
    ELSE IF c[i] # NoElement /\ NameAccepted(c[i]) THEN Used(i, c[i].text)
    ELSE NameFrom(c, i + 1)

\* scraper.py:389 and 443-451  the loop over price_selectors: price is
\* assigned from the first element in whose text the pattern matches
RECURSIVE PriceFrom(_, _)
PriceFrom(c, i) ==
    IF i > Len(c) THEN Used(0, 0)
    ELSE IF c[i].text # None /\ c[i].number # NoNumber THEN Used(i, c[i].number)
    ELSE PriceFrom(c, i + 1)

\* what the chain of the kind uses on the candidates
Resolved(kind, c) ==
    CASE kind = "container" -> ContainerFrom(c, 1)
      [] kind = "items" -> ItemsFrom(c, 1)
      [] kind = "name" -> NameFrom(c, 1)
      [] kind = "price" -> PriceFrom(c, 1)

\* the site serves a DOM: for one chain, what each of its selectors meets
Serve ==
    /\ chain.kind = "none"
    /\ \E kind \in DOMAIN ChainLength :
          \E c \in [1..ChainLength[kind] -> Outcomes[kind]] :
              chain' = [kind |-> kind, candidates |-> c, used |-> [sel |-> -1]]
    /\ UNCHANGED <<mainVars, objVars, delays>>

\* scrape_search_page runs the chain
Resolve ==
    /\ chain.kind # "none" /\ chain.used.sel = -1
    /\ chain' = [chain EXCEPT !.used = Resolved(chain.kind, chain.candidates)]
    /\ UNCHANGED <<mainVars, objVars, delays>>

ChainInit == SessionInit

ChainNext == Serve \/ Resolve

ChainSpec == ChainInit /\ [][ChainNext]_vars


(***************************************************************************)
(* save_to_database (scraper.py:714-830) called in any sequence, by any    *)
(* caller of the method and at any time: another process on the same       *)
(* database (scraper.py:908-925), or a caller that does not go through      *)
(* create_report.                                                          *)
(***************************************************************************)
\* the items the callers pass
SaveItem(i) == [name |-> Names[i], price |-> 10 + i, url |-> AbsHref(i)]

\* the batches: up to MaxBatch different items, in any order
Batches ==
    {b \in UNION {[1..n -> 1..(MaxBatch + 1)] : n \in 1..MaxBatch} :
        \A i, j \in DOMAIN b : i # j => b[i] # b[j]}

\* a second passes
Tick ==
    /\ now < MaxTime
    /\ now' = now + 1
    /\ UNCHANGED <<pc, keyword, browser, reqVars, lockVars, storeVars, cache, lru,
                   polls, objVars, unitVars>>

\* scraper.py:726-830  a call of save_to_database(products_data, keyword)
Save ==
    /\ Len(sessions) < MaxSaves
    /\ \E b \in Batches :
          LET res == save_to_database([i \in DOMAIN b |-> SaveItem(b[i])], keyword[1],
                                      products, sessions, now, "none", FALSE, 0)
          IN  /\ products' = res.products
              /\ sessions' = res.sessions
              /\ orm_session' = [by |-> 0, session |-> res.session,
                                 secondary |-> res.secondary]
    /\ UNCHANGED <<pc, keyword, browser, reqVars, lockVars, db_faults, files, now,
                   cache, lru, polls, objVars, unitVars>>

PersistInit == SessionInit

PersistNext == Tick \/ Save

PersistSpec == PersistInit /\ [][PersistNext]_vars


(***************************************************************************)
(* Properties                                                              *)
(***************************************************************************)
\* request r is inside scrape_and_save_to_db under scraping_lock, or has
\* left it and not yet released the lock
InRun(r) == pc[r] \in {"nav", "fallback", "classify", "extract", "detail",
                       "persist", "release"}

\* scrape_and_save_to_db of request r has returned or raised and the lock
\* is not yet released
RunFinished(r) == pc[r] = "release"

\* C1: single-flight. In no reachable state are two requests both inside
\* the gated run: at most one request holds scraping_lock, and whoever is
\* inside the run holds it.
C1_SingleFlight ==
    /\ Cardinality({r \in Reqs : InRun(r)}) <= 1
    /\ (\E r \in Reqs : InRun(r)) => lock_locked

\* C1 witness: one request is inside the run while another is queued on
\* the lock
C1_Witness ==
    \E r1, r2 \in Reqs : InRun(r1) /\ pc[r1] = "detail" /\ pc[r2] = "waiting"

\* the rows of scraping_sessions written by the calls of request r
AuditsOf(r) == {j \in DOMAIN sessions : sessions[j].by = r}

\* C2: exactly one audit. When the run of a request has finished, whatever
\* its outcome, the store holds exactly one scraping_sessions row written
\* by that run.
C2_ExactlyOneAudit ==
    \A r \in Reqs : RunFinished(r) => Cardinality(AuditsOf(r)) = 1

\* C3: store uniqueness. No two rows of the products table have the same
\* product_url, whatever item lists the runs passed to save_to_database.
C3_UniqueSourceUrl ==
    \A i, j \in DOMAIN products :
        i # j => products[i].product_url # products[j].product_url

\* the run of request r extracted records: the page it reached carries
\* none of the error indicators and its items were read
Usable(r) ==
    /\ page[r] # NoPage /\ PageResultOf[page[r]].status = "success"
    /\ products_basic[r] # <<>>

\* the records extracted from the page reached by request r
Extracted(r) == Take(PageResultOf[page[r]].data, max_products)

\* the URLs of a sequence of records
UrlsOf(recs) == {recs[i].url : i \in DOMAIN recs}

\* the product URLs in a products table
StoredUrls(db) == {db[j].product_url : j \in DOMAIN db}

\* save_to_database of request r met no store fault
StoreWorked(r) == raised[r] = "" /\ Get(db_result[r], "message", Msg("", 0, "")).exc = ""

\* C4: all extracted records are persisted. When a run has extracted n
\* valid records with distinct URLs, none of them in the store when the
\* run began, and the store works, the run returns success with
\* products_added = n and products_skipped = 0.
C4_AllExtractedPersisted ==
    \A r \in Reqs :
        (/\ RunFinished(r) /\ Usable(r) /\ StoreWorked(r)
         /\ Cardinality(UrlsOf(Extracted(r))) = Len(Extracted(r))
         /\ UrlsOf(Extracted(r)) \cap StoredUrls(pre_products[r]) = {})
        => /\ Get(db_result[r], "success", FALSE)
           /\ Get(db_result[r], "products_added", -1) = Len(Extracted(r))
           /\ Get(db_result[r], "products_skipped", -1) = 0

\* the item elements of a page that yield a record, in DOM order
RECURSIVE ValidInDomOrder(_)
ValidInDomOrder(es) ==
    IF es = <<>> THEN <<>>
    ELSE (IF ValidElem(Head(es)) THEN <<Head(es)>> ELSE <<>>) \o ValidInDomOrder(Tail(es))

\* the detail visits in the navigations of a run
DetailVisits(tr) == SelectSeq(tr, LAMBDA g : g.to = "detail")

Min(a, b) == IF a < b THEN a ELSE b

\* C5: enrichment cap and order. When the detail loop of a run that
\* extracted n records is over, exactly min(n, 5) detail pages were
\* visited, and the i-th visit went to the URL of the i-th item element, in
\* DOM order, that yields a record.
C5_EnrichmentCapAndOrder ==
    \A r \in Reqs :
        pc[r] \in {"persist", "release"} /\ Usable(r) =>
            LET valid == ValidInDomOrder(products_of(Pages[page[r]]))
                visits == DetailVisits(trace[r])
            IN  /\ Len(visits) = Min(Len(valid), 5)
                /\ \A i \in DOMAIN visits : visits[i].url = product_url_of(valid[i])

\* C5 witness: the detail loop of a run that extracted more than five
\* records is over
C5_Witness ==
    \E r \in Reqs :
        /\ pc[r] = "persist" /\ Usable(r)
        /\ Len(Extracted(r)) > 5
        /\ Len(DetailVisits(trace[r])) = 5

\* C6: deduplication against the store. When the store held k of the n
\* URLs extracted by a run when the run began (and the store works), the
\* run returns products_added = n - k and products_skipped = k, and the
\* rows that were in the store are unchanged.
C6_DedupAgainstStore ==
    \A r \in Reqs :
        (/\ RunFinished(r) /\ Usable(r) /\ StoreWorked(r)
         /\ Cardinality(UrlsOf(Extracted(r))) = Len(Extracted(r)))
        => LET k == Cardinality(UrlsOf(Extracted(r)) \cap StoredUrls(pre_products[r]))
           IN  /\ Get(db_result[r], "products_added", -1) = Len(Extracted(r)) - k
               /\ Get(db_result[r], "products_skipped", -1) = k
               /\ Take(products, Len(pre_products[r])) = pre_products[r]

\* C7: idempotence. When a run succeeds on the page on which the run of
\* another request with the same keyword succeeded before it, the second
\* run returns products_added = 0 and products_skipped equal to the
\* number of items found that its audit row records, and leaves the
\* products table as it found it.
C7_Idempotence ==
    \A r1, r2 \in Reqs :
        (/\ r1 # r2
         /\ pc[r1] \in {"analyze", "finally"} /\ RunSucceeded(r1)
         /\ RunFinished(r2) /\ RunSucceeded(r2)
         /\ page[r1] = page[r2] /\ keyword[r1] = keyword[r2])
        => /\ db_result[r2].products_added = 0
           /\ AuditsOf(r2) # {}
           /\ \A j \in AuditsOf(r2) :
                 db_result[r2].products_skipped = sessions[j].products_found
           /\ products = pre_products[r2]

\* C7 witness: the second of two successful runs on the page with more
\* than five items has finished, the first one started on an empty store
C7_Witness ==
    \E r1, r2 \in Reqs :
        /\ r1 # r2
        /\ pc[r1] \in {"analyze", "finally"} /\ RunSucceeded(r1)
        /\ RunFinished(r2) /\ RunSucceeded(r2)
        /\ page[r1] = page[r2] /\ keyword[r1] = keyword[r2]
        /\ db_result[r1].products_added = 5
        /\ db_result[r2].products_skipped = 5

\* the error indicators (indices of scraper.py:263-269) that the title
\* or the markup of page p carries, compared case-insensitively
Carries(p) ==
    {k \in DOMAIN error_indicators :
        \/ Contains(lower(error_indicators[k]), lower(Pages[p].title))
        \/ Contains(lower(error_indicators[k]), lower(Pages[p].content))}

\* the same, tabulated over the pages of the model
RECURSIVE CarriesUpTo(_)
CarriesUpTo(n) == IF n = 0 THEN <<>> ELSE Append(CarriesUpTo(n - 1), Carries(n))

CarriesOf == CarriesUpTo(Len(Pages))

\* the pages that carry an indicator, and only in other letter case than
\* the list of scraper.py:263 spells it
OtherCasePages ==
    {p \in PageIds :
        /\ Carries(p) # {}
        /\ \A k \in Carries(p) :
              /\ ~Contains(error_indicators[k], Pages[p].title)
              /\ ~Contains(error_indicators[k], Pages[p].content)}

\* request r has reached a page that carries an error indicator
OnBlockedPage(r) == page[r] # NoPage /\ CarriesOf[page[r]] # {}

\* C8: block priority. A page that carries an error indicator, in any
\* letter case, is classified as an error page with an indicator it
\* carries, however many item elements it has: the run never goes on to
\* extraction with it and never reports a missing container or an empty
\* list for it. (A browser that was closed under the run cannot be asked
\* for the page: that case is C11.)
C8_BlockPriority ==
    \A r \in Reqs :
        OnBlockedPage(r) /\ ~Dead(r) =>
            \/ pc[r] = "classify"
            \/ /\ pc[r] \in {"release", "finally"}
               /\ PageResultOf[page[r]].status = "error"
               /\ PageResultOf[page[r]].reason.indicator \in CarriesOf[page[r]]
               /\ db_result[r] = Failure(PageResultOf[page[r]].reason)

\* C8 witness: a run was classified on a page with an indicator in its
\* title and no item element, and another on a page with item elements
\* and an indicator in other letter case in its markup
C8_Witness ==
    \E r1, r2 \in Reqs :
        /\ pc[r1] = "finally" /\ OnBlockedPage(r1)
        /\ products_of(Pages[page[r1]]) = <<>>
        /\ RunFinished(r2) /\ OnBlockedPage(r2)
        /\ products_of(Pages[page[r2]]) # <<>>
        /\ page[r2] \in OtherCasePages

\* C9: a blocked page short-circuits the run. When the run of a request
\* that reached a page with an error indicator has finished, it returned
\* success = False with a message that names an indicator of the page, the
\* successful navigation that reached the page is the last navigation of
\* the run (no retry, no detail visit), and the products table is as it
\* was when the run began. (The indicator is detected on a live browser.)
C9_BlockedShortCircuits ==
    \A r \in Reqs :
        RunFinished(r) /\ OnBlockedPage(r) /\ ~Dead(r) =>
            /\ raised[r] = ""
            /\ Get(db_result[r], "success", TRUE) = FALSE
            /\ db_result[r].message.indicator \in CarriesOf[page[r]]
            /\ trace[r] # <<>>
            /\ \A i \in DOMAIN trace[r] :
                  /\ trace[r][i].to # "detail"
                  /\ trace[r][i].ok <=> i = Len(trace[r])
            /\ detailed_products[r] = <<>>
            /\ products = pre_products[r]

\* C9 witness: a run that reached a blocked page with item elements on
\* its second attempt has finished, on a store that is not empty
C9_Witness ==
    \E r \in Reqs :
        /\ RunFinished(r) /\ OnBlockedPage(r)
        /\ products_of(Pages[page[r]]) # <<>>
        /\ Len(trace[r]) = 2
        /\ products # <<>>

\* the exception texts of a failure in the item loop or in the commit of
\* save_to_database
LoopOrCommitFailures ==
    {"OperationalError in query", "OperationalError in commit", "IntegrityError in commit"}

\* save_to_database of request r met an exception in its loop or commit
PersistFailed(r) ==
    /\ RunFinished(r)
    /\ Get(db_result[r], "message", Msg("", 0, "")).exc \in LoopOrCommitFailures

\* C10: persist is all-or-nothing on failure. When save_to_database met an
\* exception in its item loop or in its commit, the products table is as
\* it was before the call, the call returned success = False, and the only
\* audit row the call can have written is one with status "failed",
\* products_saved = 0 and the exception's text as error_message.
C10_AllOrNothing ==
    \A r \in Reqs :
        PersistFailed(r) =>
            /\ products = pre_products[r]
            /\ db_result[r].success = FALSE
            /\ Cardinality(AuditsOf(r)) <= 1
            /\ \A j \in AuditsOf(r) :
                  /\ sessions[j].session_status = "failed"
                  /\ sessions[j].products_saved = 0
                  /\ sessions[j].error_message =
                        [kind |-> "exception", text |-> db_result[r].message.exc]

\* C10 witness: the commit of a call with rows to insert failed and the
\* failure audit is in the store
C10_Witness ==
    \E r \in Reqs :
        /\ PersistFailed(r)
        /\ db_result[r].message.exc = "OperationalError in commit"
        /\ \E i \in DOMAIN detailed_products[r] : ~existing(detailed_products[r][i], products)
        /\ AuditsOf(r) # {}

\* the run of request r has ended and its browser was closed under it
SessionFatal(r) == Dead(r) /\ RunFinished(r)

\* C11: session-fatal errors propagate. When the browser was closed under
\* a run, in a search navigation, in the selector lookup or in a detail
\* visit, the run ends with the browser-closed error raised to its caller:
\* no result dict is returned and no defaulted record is built.
C11_SessionFatalPropagates ==
    \A r \in Reqs :
        SessionFatal(r) =>
            /\ raised[r] = "TargetClosedError"
            /\ db_result[r] = NoResult
            /\ \A i \in DOMAIN detailed_products[r] :
                  detailed_products[r][i].detail_name # "ERROR"

\* C12: a cancelled run persists nothing. When the browser was closed
\* after the results page was extracted and before save_to_database, the
\* products table holds no row more than when the run began.
C12_CancelledRunPersistsNothing ==
    \A r \in Reqs :
        SessionFatal(r) /\ products_basic[r] # <<>> => products = pre_products[r]

\* C13: ordinary failures are returned, not raised. When the run of a
\* request whose browser stayed open has finished (navigation attempts
\* exhausted, error page, nothing extracted, store unavailable, store
\* write failure, or success), no exception left it and it returned a
\* dict with success and message.
C13_OrdinaryFailuresReturned ==
    \A r \in Reqs :
        RunFinished(r) /\ ~Dead(r) =>
            /\ raised[r] = ""
            /\ {"success", "message"} \subseteq DOMAIN db_result[r]

\* request r is navigating or extracting, its store write still ahead
BeforeCommit(r) == pc[r] \in {"nav", "fallback", "classify", "extract", "detail", "persist"}

\* the step is a search navigation of request r
Navigates(r) ==
    /\ Len(trace'[r]) = Len(trace[r]) + 1
    /\ trace'[r][Len(trace'[r])].to \in {"search", "root"}

\* C14: end-to-end serialization. A request navigates to the search only
\* while no other request is between its acquire and its release, and the
\* store is written only by the request that holds the lock, while no
\* other request has navigated in a run of its own that is not over: the
\* commit and the audit of one run come before the first navigation of
\* the next.
C14_EndToEndSerialization ==
    [][/\ \A r2 \in Reqs :
             Navigates(r2) => \A r1 \in Reqs \ {r2} : ~InRun(r1)
       /\ (products' # products \/ sessions' # sessions) =>
             \E r1 \in Reqs :
                /\ pc[r1] = "persist" /\ pc'[r1] = "release"
                /\ lock_locked /\ lock_locked'
                /\ \A r2 \in Reqs \ {r1} : ~BeforeCommit(r2) /\ trace[r2] = <<>>]_vars

\* C14 witness: a request that queued behind a run is navigating, and its
\* run began on the rows and the audit the first run committed
C14_Witness ==
    \E r1, r2 \in Reqs :
        /\ r1 # r2
        /\ pc[r1] \in {"analyze", "finally"} /\ RunSucceeded(r1)
        /\ db_result[r1].products_added > 0
        /\ pc[r2] = "classify" /\ trace[r2] # <<>>
        /\ pre_products[r2] = products
        /\ AuditsOf(r1) # {}
        /\ now = 2

\* C15: exception-safe gate release. The lock is held only while a run is
\* between its acquire and its release, whatever way earlier runs ended;
\* when no run is in flight the lock is free, and if requests are queued
\* the first of them has been resumed.
C15_GateReleased ==
    (\A r \in Reqs : ~InRun(r)) =>
        /\ ~lock_locked
        /\ lock_waiters # <<>> => Head(lock_waiters) \in lock_woken

\* C15 witness: a run ended with an exception, the lock is free and the
\* request queued behind it has been resumed
C15_Witness ==
    \E r1, r2 \in Reqs :
        /\ pc[r1] = "finally"
        /\ raised[r1] \in {"TargetClosedError", "OperationalError in connect"}
        /\ ~lock_locked
        /\ pc[r2] = "waiting" /\ r2 \in lock_woken

\* C16: the browser is owned under the gate. Every step that launches,
\* closes or loses the browser of a request is taken while that request
\* holds scraping_lock.
C16_BrowserOnlyUnderGate ==
    [][\A r \in Reqs : browser'[r] # browser[r] => InRun(r) /\ lock_locked]_vars

\* C18: unconditional teardown. No request is over with its browser
\* open: whichever way create_report was left, a browser that was launched
\* has been closed.
C18_Teardown ==
    \A r \in Reqs : pc[r] = "done" => browser[r] \in {"none", "closed"}

\* C18 witness: both requests are over with their browsers closed, one
\* with the report and one with the error page
C18_Witness ==
    \E r1, r2 \in Reqs :
        /\ pc[r1] = "done" /\ outcome[r1] = "error" /\ browser[r1] = "closed"
        /\ pc[r2] = "done" /\ outcome[r2] = "report" /\ browser[r2] = "closed"

\* C17: open() is idempotent while a session is open. A start_browser
\* call on an object whose browser is alive launches nothing and leaves
\* self.browser and self.page as they are, and the object never has more
\* than one browser alive.
C17_OpenIdempotent ==
    /\ [][(playwright'.drivers # playwright.drivers
            /\ scraper.browser \in playwright.live)
          => /\ scraper' = scraper
             /\ playwright'.launched = playwright.launched]_vars
    /\ [](Cardinality(playwright.live) <= 1)

\* C19: close() releases everything and may be repeated. A close_browser
\* call raises nothing; after it the object has no browser alive, no page
\* of a live browser and no driver process running; and on an object
\* without a live browser it changes nothing.
C19_CloseReleasesAll ==
    [][last_call'.method = "close_browser" =>
          /\ ~last_call'.raised
          /\ playwright'.live = {}
          /\ scraper'.page \notin playwright'.live
          /\ playwright'.drivers = 0
          /\ scraper.browser \notin playwright.live =>
                UNCHANGED <<scraper, playwright>>]_vars

\* the rows of the products table written by the requests (the rows of
\* EarlierRun carry time 0)
WrittenByRequests == {j \in DOMAIN products : products[j].product_id[1] > 0}

\* C20: only complete records are persisted. Every row of the products
\* table written by a request has a resolved title, a price above 0 and a
\* product URL.
C20_OnlyCompleteRecords ==
    \A j \in WrittenByRequests :
        /\ products[j].product_title \notin {"N/A", ""}
        /\ products[j].discounted_price > 0
        /\ products[j].product_url # NoUrl

\* the navigations of the search of request r (the detail visits left out)
SearchNavs(r) == SelectSeq(trace[r], LAMBDA g : g.to # "detail")

\* the run of request r reported that the results page could not be reached
ReportedUnreachable(r) ==
    /\ "message" \in DOMAIN db_result[r]
    /\ db_result[r].message.text = Unreachable("").text

\* C21: bounded retry with ordered fallback. In every state the
\* navigations of a search are at most three direct attempts, of which only
\* the last may have succeeded, followed by at most one indirect attempt,
\* which comes fourth, after three failed direct attempts; while the direct
\* attempts go on nothing is reported; and the run reports an unreachable
\* page exactly when the three direct attempts and the indirect one failed.
C21_BoundedRetryOrderedFallback ==
    \A r \in Reqs :
        LET t == SearchNavs(r)
            allFailed == Len(t) = max_retries + 1 /\ \A i \in DOMAIN t : ~t[i].ok
        IN  /\ Len(t) <= max_retries + 1
            /\ \A i \in DOMAIN t :
                  /\ t[i].to = "search" => i <= max_retries
                  /\ t[i].to = "root" => i = max_retries + 1
                  /\ t[i].ok => i = Len(t)
            /\ pc[r] \in {"nav", "fallback"} =>
                  /\ db_result[r] = NoResult /\ raised[r] = ""
                  /\ \A i \in DOMAIN t : ~t[i].ok
                  /\ pc[r] = "nav" => Len(t) = attempt[r] /\ attempt[r] < max_retries
                  /\ pc[r] = "fallback" => Len(t) = max_retries
            /\ ReportedUnreachable(r) /\ RunFinished(r) => allFailed
            /\ RunFinished(r) /\ allFailed => ReportedUnreachable(r)

\* C21 witness: a run whose three direct attempts and indirect attempt all
\* failed has returned, and another reached the results page on its third
\* direct attempt
C21_Witness ==
    \E r1, r2 \in Reqs :
        /\ pc[r1] = "finally" /\ ReportedUnreachable(r1)
        /\ pc[r2] = "classify" /\ Len(trace[r2]) = max_retries
        /\ trace[r2][max_retries].ok /\ trace[r2][max_retries].to = "search"

\* C22: pacing never shrinks. Across the direct attempts of one search the
\* base delay is 5, 8, 11 seconds, strictly increasing with the attempt
\* number, and whatever the random parts are, the total delay of a later
\* attempt is not smaller than the total delay of an earlier one.
C22_PacingNeverShrinks ==
    \A i, j \in DOMAIN delays :
        /\ delays[i].base_delay = <<5, 8, 11>>[i] * Ticks
        /\ i < j => /\ delays[i].base_delay < delays[j].base_delay
                    /\ delays[i].total_delay <= delays[j].total_delay

\* C22 witness: three attempts have slept, the first with the largest
\* random part and the second with the smallest
C22_Witness ==
    /\ Len(delays) = max_retries
    /\ delays[1].random_delay = 5 * Ticks
    /\ delays[2].random_delay = 2 * Ticks
    /\ delays[1].total_delay = delays[2].total_delay

\* save_to_database of request r returned success = True and the lock is
\* not yet released
PersistSucceeded(r) == RunFinished(r) /\ RunSucceeded(r)

\* C23: audit content on a successful persist. When save_to_database has
\* returned success = True, the run wrote exactly one scraping_sessions row,
\* the last of the table: its products_found is the number of items passed
\* in, its products_saved is the products_added returned, its status is
\* "completed" when products_added > 0 and "partial" otherwise. And the row
\* appears in the same step (the commit) as the products rows of the call:
\* the step in which the call succeeds adds that one audit row and
\* products_saved rows to the products table, and nothing before it.
C23_AuditOnSuccess ==
    /\ [](\A r \in Reqs :
            PersistSucceeded(r) =>
                /\ Cardinality(AuditsOf(r)) = 1
                /\ LET a == sessions[Len(sessions)]
                   IN  /\ a.by = r
                       /\ a.products_found = Len(detailed_products[r])
                       /\ a.products_saved = db_result[r].products_added
                       /\ a.session_status =
                             (IF db_result[r].products_added > 0
                              THEN "completed" ELSE "partial"))
    /\ [][\A r \in Reqs :
            pc[r] = "persist" /\ PersistSucceeded(r)' =>
                /\ products = pre_products[r] /\ AuditsOf(r) = {}
                /\ Len(sessions') = Len(sessions) + 1
                /\ SubSeq(sessions', 1, Len(sessions)) = sessions
                /\ Len(products') =
                      Len(products) + sessions'[Len(sessions')].products_saved
                /\ SubSeq(products', 1, Len(products)) = products
         ]_vars

\* C23 witness: a run that added rows wrote a "completed" audit, and a
\* later run whose items were all in the store has written a "partial" one
C23_Witness ==
    \E r1, r2 \in Reqs :
        /\ PersistSucceeded(r2)
        /\ db_result[r2].products_added = 0
        /\ sessions[Len(sessions)].session_status = "partial"
        /\ pc[r1] = "analyze" /\ db_result[r1].products_added > 0
        /\ \E j \in AuditsOf(r1) : sessions[j].session_status = "completed"

\* the exception texts of the failures save_to_database handles
HandledFailures == LoopOrCommitFailures \cup {"OperationalError in count"}

\* save_to_database of request r has returned or raised, and the write of
\* its failure audit had failed
FailureAuditFailed(r) ==
    RunFinished(r) /\ orm_session.by = r /\ orm_session.secondary # ""

\* C24: best-effort failure audit. When the write of the "failed" audit
\* after the rollback fails itself, save_to_database raises nothing and
\* returns success = False with a message that carries the first
\* exception, not the second; no "failed" row of the call is in the store;
\* and the ORM session of the call is closed.
C24_BestEffortFailureAudit ==
    \A r \in Reqs :
        FailureAuditFailed(r) =>
            /\ raised[r] = ""
            /\ {"success", "message"} \subseteq DOMAIN db_result[r]
            /\ db_result[r].success = FALSE
            /\ db_result[r].message.exc \in HandledFailures
            /\ \A j \in AuditsOf(r) : sessions[j].session_status # "failed"
            /\ orm_session.session = "closed"

\* C24 witness: the commit of a call failed and so did the write of its
\* failure audit
C24_Witness ==
    \E r \in Reqs :
        /\ FailureAuditFailed(r)
        /\ db_result[r].message.exc = "OperationalError in commit"
        /\ AuditsOf(r) = {}

\* candidate i of the chain yields a match the chain accepts
Acceptable(i) ==
    LET o == chain.candidates[i]
    IN  CASE chain.kind = "container" -> o = "element"
          [] chain.kind = "items" -> o >= 1
          [] chain.kind = "name" ->
                o.text \notin {None, "", "N/A"} /\ o.length > 10 /\ ~o.promo
          [] chain.kind = "price" -> o.text # None /\ o.number >= 0

\* the value a match of candidate i gives
ValueOf(i) ==
    LET o == chain.candidates[i]
    IN  CASE chain.kind \in {"container", "items"} -> o
          [] chain.kind = "name" -> o.text
          [] chain.kind = "price" -> o.number

\* C27: first match wins. When a chain of scrape_search_page (container,
\* item elements, name, price) has run, the selector it used is the
\* lowest-index selector with an acceptable match and the value is that
\* match's; every selector before it met nothing, raised or was rejected;
\* and no selector is used when none has an acceptable match.
C27_FirstMatchWins ==
    chain.used.sel # -1 =>
        LET acceptable == {i \in DOMAIN chain.candidates : Acceptable(i)}
        IN  IF acceptable = {}
            THEN chain.used.sel = 0
            ELSE /\ chain.used.sel \in acceptable
                 /\ \A i \in acceptable : chain.used.sel <= i
                 /\ chain.used.value = ValueOf(chain.used.sel)

\* C27 witness: the name chain ran on an item where the first selector
\* meets a promotional text, the second a short text, the third and the
\* fifth a product name, and used the third
C27_Witness ==
    /\ chain.kind = "name" /\ chain.used.sel = 3
    /\ chain.candidates[1].promo
    /\ chain.candidates[2] # NoElement /\ chain.candidates[2].length <= 10
    /\ Acceptable(3) /\ Acceptable(5)

\* C25: per-item failure isolation in enrichment. Every record that had
\* its detail visit is in detailed_products, in order, with its name and
\* URL; a record whose visit failed carries the defaults (brand and seller
\* "N/A", is_prime False, rating 0, review_count 0); the loop raises
\* nothing; and when the loop is over, as many records leave it as were
\* selected for it, whatever visits failed.
C25_PerItemIsolation ==
    \A r \in Reqs :
        pc[r] \in {"detail", "persist"} \/ (RunFinished(r) /\ Usable(r)) =>
            LET selected == EnrichPrefix(products_basic[r])
                visits == DetailVisits(trace[r])
                out == detailed_products[r]
            IN  /\ Len(out) = Len(visits) /\ Len(out) <= Len(selected)
                /\ pc[r] = "detail" => raised[r] = "" /\ db_result[r] = NoResult
                /\ pc[r] # "detail" => Len(out) = Len(selected)
                /\ \A i \in DOMAIN out :
                      /\ out[i].name = selected[i].name
                      /\ out[i].url = selected[i].url
                      /\ visits[i].url = selected[i].url
                      /\ ~visits[i].ok =>
                            /\ out[i].brand = "N/A" /\ out[i].seller = "N/A"
                            /\ out[i].is_prime = FALSE
                            /\ out[i].rating = 0 /\ out[i].review_count = 0

\* C25 witness: the detail loop of a run with five selected records is
\* over; the visit of the second failed and the visit of the third
\* succeeded
C25_Witness ==
    \E r \in Reqs :
        /\ pc[r] = "persist"
        /\ Len(detailed_products[r]) = 5
        /\ ~DetailVisits(trace[r])[2].ok
        /\ DetailVisits(trace[r])[3].ok
        /\ detailed_products[r][3].brand # "N/A"

\* C26: the warm-up is not fatal. A start_browser call in whose warm-up a
\* step failed, whatever the failure, returns without raising, with
\* self.browser and self.page set to the browser launched by this call and
\* its page, so that scrape_search_page does not refuse to run; and unless
\* the failure was that the browser is gone, that browser is alive.
C26_WarmupNotFatal ==
    last_call.how \in {"warm-up failed", "closed in warm-up"} =>
        /\ ~last_call.raised
        /\ scraper.browser = playwright.launched
        /\ scraper.page = scraper.browser /\ scraper.page # 0
        /\ last_call.how = "warm-up failed" => scraper.page \in playwright.live

\* C26 witness: the second start_browser call on an object met a failure in
\* its warm-up; the browsers of both calls are alive
C26_Witness ==
    /\ last_call.how = "warm-up failed"
    /\ playwright.launched = 2 /\ playwright.drivers = 2
    /\ Cardinality(playwright.live) = 2

\* the search of request r came back, on a live browser, from a page that
\* carries no error indicator and has no item element (no product matches
\* the keyword)
ZeroProducts(r) ==
    /\ pc[r] \in {"release", "finally"} /\ ~Dead(r)
    /\ page[r] # NoPage /\ CarriesOf[page[r]] = {}
    /\ products_of(Pages[page[r]]) = <<>>

\* the same, from a page with item elements none of which gives a valid
\* record
NoValidRecord(r) ==
    /\ pc[r] \in {"release", "finally"} /\ ~Dead(r)
    /\ page[r] # NoPage /\ CarriesOf[page[r]] = {}
    /\ products_of(Pages[page[r]]) # <<>>
    /\ scraped_data(products_of(Pages[page[r]])) = <<>>

\* C28: empty result versus extraction failure. A run on a page without
\* error indicator and without products returns an empty result that is
\* not a failure (success = True, nothing added), and what it returns
\* differs from what a run returns whose page had item elements but no
\* valid record.
C28_EmptyResultIsNotFailure ==
    \A r \in Reqs :
        ZeroProducts(r) =>
            /\ raised[r] = ""
            /\ Get(db_result[r], "success", FALSE) = TRUE
            /\ Get(db_result[r], "products_added", -1) = 0
            /\ \A q \in Reqs : NoValidRecord(q) => db_result[q] # db_result[r]

\* C29: the diagnostic side effect is confined. A step writes a file only
\* when it is the step of a search that could not locate the results
\* container on a live browser, and then it writes error_page.html once;
\* every other step, the one that finds a container without item elements
\* included, writes nothing.
C29_DiagnosticConfined ==
    [][\A r \in Reqs :
          pc'[r] # pc[r] =>
              LET noContainer == /\ pc[r] = "extract" /\ ~Dead(r)
                                 /\ product_list_container(Pages[page[r]]) = 0
              IN  IF noContainer
                  THEN files' = [files EXCEPT !["error_page.html"] = @ + 1]
                  ELSE files' = files
      ]_vars

\* C30: persist accounting. When save_to_database has returned success =
\* True, products_added + products_skipped is the number of items passed
\* in, the products table holds products_added rows more than before the
\* call, and total_products_in_db is the number of rows it holds now.
C30_PersistAccounting ==
    \A r \in Reqs :
        PersistSucceeded(r) =>
            /\ db_result[r].products_added + db_result[r].products_skipped
                  = Len(detailed_products[r])
            /\ Len(products) = Len(pre_products[r]) + db_result[r].products_added
            /\ db_result[r].total_products_in_db = Len(products)

\* C30 witness: a call on a store that held rows added some of its items
\* and skipped the others
C30_Witness ==
    \E r \in Reqs :
        /\ PersistSucceeded(r)
        /\ pre_products[r] # <<>>
        /\ db_result[r].products_added > 0
        /\ db_result[r].products_skipped > 0

\* C31: the report reflects the scrape. In the step in which a request
\* whose run succeeded computes its report, the competitor_count that
\* analyze_category_competition returns for the keyword is the number of
\* rows of the category in the products table as it is then, the rows the
\* run committed included.
C31_ReportReflectsScrape ==
    [][\A r \in Reqs :
          pc[r] = "analyze" /\ pc'[r] = "finally" /\ RunSucceeded(r) =>
              lru'[keyword[r]] = competitor_count(keyword[r], products)
      ]_vars

\* C32: enrichment leaves the raw fields untouched. Every record of
\* detailed_products, the list handed to save_to_database, has the name,
\* the price and the URL of the record of products_basic it was made from,
\* whether its detail visit succeeded or failed.
C32_RawFieldsUntouched ==
    \A r \in Reqs :
        \A i \in DOMAIN detailed_products[r] :
            LET raw == EnrichPrefix(products_basic[r])[i]
                out == detailed_products[r][i]
            IN  /\ out.name = raw.name
                /\ out.price = raw.price
                /\ out.url = raw.url

\* the calls of save_to_database that failed on the uniqueness constraint
\* of product_id: each left a "failed" audit with the exception's text
IdConstraintFailures ==
    {j \in DOMAIN sessions :
        /\ sessions[j].session_status = "failed"
        /\ sessions[j].error_message.text = "IntegrityError in commit"}

\* C33: generated ids never collide. For any sequence of save_to_database
\* calls, the product_id of every row is different from that of every
\* other row, and no call failed on the uniqueness constraint of
\* product_id.
C33_IdsNeverCollide ==
    /\ \A i, j \in DOMAIN products :
          i # j => products[i].product_id # products[j].product_id
    /\ IdConstraintFailures = {}

\* a step in which request r returns the cached report
CacheHitStep(r) == pc[r] = "start" /\ pc'[r] = "done"

\* C34: a request answered from the cache launches no browser, neither
\* takes nor queues at the gate, and neither reads (the analyzer's
\* memoised query) nor writes the store; the step changes nothing but the
\* request's position and its response, also while another request's run
\* holds the gate.
C34_CacheHitSideEffectFree ==
    [][\A r \in Reqs :
          CacheHitStep(r) =>
              /\ outcome'[r] = "cached"
              /\ browser'[r] = "none" /\ browser' = browser
              /\ UNCHANGED <<lockVars, storeVars, lru, cache, now>>
              /\ \A q \in Reqs \ {r} : pc'[q] = pc[q] /\ outcome'[q] = outcome[q]
      ]_vars

\* a request was answered from the cache while the other request's run
\* holds the gate
C34_Witness ==
    \E r \in Reqs :
        /\ outcome[r] = "cached" /\ pc[r] = "done" /\ browser[r] = "none"
        /\ \E q \in Reqs \ {r} : InRun(q) /\ lock_locked

\* the acquisition of request r returned success (main.py:146)
AcquisitionSucceeded(r) ==
    raised[r] = "" /\ "success" \in DOMAIN db_result[r] /\ db_result[r].success

\* request r took the else branch of main.py:136: the store held enough
\* items of its category and no acquisition was started
AcquisitionSkipped(r) ==
    db_result[r] = NoResult /\ raised[r] = "" /\ lru[keyword[r]] >= ExistingThreshold

\* the acquisition of request r raised or returned success = False
AcquisitionFailed(r) ==
    \/ raised[r] # ""
    \/ "success" \in DOMAIN db_result[r] /\ ~db_result[r].success

\* C35: the cache gets an entry only in the step of a request that writes
\* the entry of its own keyword after its acquisition succeeded or was
\* skipped because the store held enough data; no step of a request whose
\* acquisition failed or raised changes the cache.
C35_FailedRunsNeverCached ==
    [][/\ cache' # cache =>
              \E r \in Reqs :
                  /\ pc[r] = "analyze" /\ pc'[r] = "finally"
                  /\ cache' = cache \cup {keyword[r]}
                  /\ AcquisitionSucceeded(r) \/ AcquisitionSkipped(r)
       /\ \A r \in Reqs :
              AcquisitionFailed(r) /\ pc'[r] # pc[r] => cache' = cache
      ]_vars

\* one request wrote its entry after a successful acquisition, the other
\* after skipping the acquisition
C35_Witness ==
    \E r, q \in Reqs :
        /\ pc[r] = "finally" /\ outcome[r] = "report" /\ AcquisitionSucceeded(r)
        /\ pc[q] = "finally" /\ outcome[q] = "report" /\ AcquisitionSkipped(q)
        /\ {keyword[r], keyword[q]} \subseteq cache

\* C36: a request that waits for the gate eventually holds it and runs,
\* and a free gate with requests waiting is eventually taken (every
\* gated run terminating: the steps of a request are fair).
C36_NoCallerStuck ==
    /\ \A r \in Reqs : (pc[r] = "waiting") ~> InRun(r)
    /\ (~lock_locked /\ lock_waiters # <<>>) ~> lock_locked

\* the gate is free, a request waits in its queue and its wake-up is
\* pending
C36_Witness ==
    \E r \in Reqs :
        /\ pc[r] = "waiting" /\ ~lock_locked
        /\ lock_waiters = <<r>> /\ r \in lock_woken

\* the navigations of a trace that went to one kind of target
GotosTo(tr, to) == Cardinality({i \in DOMAIN tr : tr[i].to = to})

\* how far the run of request r has come: the position in
\* scrape_and_save_to_db, and within a loop the loop variable
RunProgress(r) ==
    CASE pc[r] = "nav" -> attempt[r]
      [] pc[r] = "fallback" -> 3
      [] pc[r] = "classify" -> 4
      [] pc[r] = "extract" -> 5 + polls[r].n
      [] pc[r] = "detail" -> 16 + Len(detailed_products[r])
      [] pc[r] = "persist" -> 21
      [] pc[r] = "release" -> 22
      [] OTHER -> 0

\* what a step of the run of request r changes
RunVars(r) == <<pc[r], attempt[r], trace[r], polls[r], detailed_products[r]>>

\* C37: a run makes at most 3 direct attempts and one indirect one, at
\* most 10 polls for the product list and at most 5 detail visits; every
\* step of the run takes it further through scrape_and_save_to_db (no
\* step goes back: the selector chains are passed once); and, each page
\* operation returning or failing, a run that began reaches its final
\* result.
C37_EveryRunTerminates ==
    /\ [][\A r \in Reqs :
             /\ GotosTo(trace'[r], "search") <= 3
             /\ GotosTo(trace'[r], "root") <= 1
             /\ polls'[r].n <= 10
             /\ GotosTo(trace'[r], "detail") <= 5
             /\ InRun(r) /\ InRun(r)' /\ RunVars(r)' # RunVars(r) =>
                   RunProgress(r)' > RunProgress(r)
         ]_vars
    /\ \A r \in Reqs : (pc[r] = "nav") ~> (pc[r] = "release")

\* a run that used up its three direct attempts, took the indirect path
\* and polled ten times for a product list that never showed
C37_Witness ==
    \E r \in Reqs :
        /\ pc[r] = "extract" /\ polls[r].n = 10 /\ ~polls[r].found
        /\ GotosTo(trace[r], "search") = 3 /\ GotosTo(trace[r], "root") = 1

====
